---- MODULE Spec2Model ----
(***************************************************************************)
(* Background refresh scheduler and snapshot cache of the football API:    *)
(* app/core/scheduler.py, app/core/cache.py and the adapters the refresh   *)
(* jobs call (app/scrapers/*.py).                                           *)
(*                                                                         *)
(* The program runs on one asyncio event loop: a task runs without         *)
(* interruption from one await that suspends to the next.  Every action    *)
(* below is one such uninterrupted stretch of one task.  The suspension    *)
(* points are the adapter call of a job and the sleep of the driver loop.  *)
(***************************************************************************)
EXTENDS Integers, Sequences, FiniteSets, TLC

\* ---------------------------------------------------------------- constants
ACTIVE_INTERVAL_S == 180
OFFPEAK_INTERVAL_S == 420
FD_INTERVAL_S == 1800
INDIAN_INTERVAL_S == 3600
SS_LEAGUES_INTERVAL_S == 1800
MAX_CYCLE_S == 120
\* pytz "Asia/Kolkata": UTC+05:30
IST_OFFSET_S == 19800

\* ------------------------------------------------------------------- bounds
\* seconds of wall-clock time after process start that are explored: of the
\* start in the off-peak hours, and of the starts just before 17:00 and 06:00
Horizon == 4100
ShortHorizon == 1200
\* number of off-nominal events in one behaviour: an adapter call that does
\* not return the full snapshot, a slow adapter call, a duplicate start, a
\* direct call of _run_cycle, a fault in a job's own logic
MaxDeviations == 1
\* duration of an adapter call: a quick one and one longer than MAX_CYCLE_S
FastFetch == 1
SlowFetch == 150
\* days of clock readings at which the live interval is probed
ProbeDays == 1
\* calls of the cache interface made by the threads that use it directly, and
\* seconds by which the clock advances meanwhile
MaxCalls == 3
MaxTicks == 1
\* seconds of clock over which requests to the on-demand endpoints are followed
DemandHorizon == 3600

\* midnight UTC of some day; time.time() is seconds since the epoch
Day0 == 20000 * 86400
IstClock(h, m) == Day0 + h * 3600 + m * 60 - IST_OFFSET_S
\* process start times: off-peak, just before 17:00 IST, just before 06:00 IST
StartTimes == {IstClock(10, 0), IstClock(16, 55), IstClock(5, 50)}
EndOf(b) == b + (IF b = IstClock(10, 0) THEN Horizon ELSE ShortHorizon)
ProbeTimes == {Day0 - IST_OFFSET_S + k * 600 : k \in 0..(ProbeDays * 144 - 1)}
Durations == {FastFetch, SlowFetch}

\* --------------------------------------------------------------------- jobs
\* faulty variant: the rate-limited batch is awaited before the live scores
Jobs_fdFirst == <<"fd", "live", "indian", "ss">>

\* the awaits of _run_cycle, in their order
Jobs == <<"live", "fd", "indian", "ss">>
JobSet == {"live", "fd", "indian", "ss"}
Gated == {"fd", "indian", "ss"}
NoJob == "-"

Idx(j) == CASE j = "live" -> 1 [] j = "fd" -> 2 [] j = "indian" -> 3 [] j = "ss" -> 4

\* faulty variant: the SofaScore-leagues job stores under the key of the
\* football-data job
Key_shared(j) ==
  CASE j = "live" -> "live_scores"
    [] j = "fd" -> "fd_leagues"
    [] j = "indian" -> "indian_leagues"
    [] j = "ss" -> "fd_leagues"

Key(j) ==
  CASE j = "live" -> "live_scores"
    [] j = "fd" -> "fd_leagues"
    [] j = "indian" -> "indian_leagues"
    [] j = "ss" -> "sofascore_leagues"

Interval(j) ==
  CASE j = "fd" -> FD_INTERVAL_S
    [] j = "indian" -> INDIAN_INTERVAL_S
    [] j = "ss" -> SS_LEAGUES_INTERVAL_S

\* tasks: two run_scheduler() tasks (a start and a duplicate start) and one
\* coroutine that calls _run_cycle() directly
Starters == {"s1", "s2"}
Callers == {"c1"}
Tasks == Starters \cup Callers
NoTask == "-"

\* ----------------------------------------------------------------- adapters
\* An adapter result: raised, or a value.
Raise(dummy) == [raised |-> TRUE, val |-> dummy]
Value(v) == [raised |-> FALSE, val |-> v]

\* scrape_live_scores: one request per date (yesterday, today, tomorrow).
\*   "matches": 200, tracked matches in play     "none": 200, nothing in play
\*   "fail": non-200 / network error / bad JSON  -> continue (line 153, 157)
\*   "bad": an event that is not of the expected shape -> the loop over the
\*          events (outside the try) raises
Dates == 1..3
DateOutcome == {"matches", "none", "fail", "bad"}
LiveInputs ==
  { <<"none", "matches", "none">>, <<"none", "none", "none">>,
    <<"fail", "fail", "fail">>, <<"none", "fail", "none">>,
    <<"matches", "fail", "none">>, <<"none", "matches", "bad">> }

scrape_live_scores(inp) ==
  IF \E d \in Dates : inp[d] = "bad"
    THEN Raise({})
    ELSE Value({d \in Dates : inp[d] = "matches"})

\* football-data.org: per league three requests (matches, standings, scorers).
\*   "data": 200 with rows   "none": 200 without rows   "fail": _get -> None
\*   "bad": malformed payload, the parsing raises inside scrape_all_fd_leagues'
\*          try and the league is left out of the result
FdSlugs == {"premier-league", "la-liga"}
FdOk == [matches |-> "data", standings |-> "data", scorers |-> "data"]
FdQuiet == [matches |-> "none", standings |-> "data", scorers |-> "data"]
FdDown == [matches |-> "fail", standings |-> "fail", scorers |-> "fail"]
FdHalf == [matches |-> "data", standings |-> "fail", scorers |-> "data"]
FdBad == [matches |-> "bad", standings |-> "data", scorers |-> "data"]
FdInputs ==
  { [s \in FdSlugs |-> FdOk], [s \in FdSlugs |-> FdDown],
    [s \in FdSlugs |-> FdBad], [s \in FdSlugs |-> FdQuiet],
    [s \in FdSlugs |-> IF s = "la-liga" THEN FdDown ELSE FdOk],
    [s \in FdSlugs |-> IF s = "la-liga" THEN FdHalf ELSE FdOk],
    [s \in FdSlugs |-> IF s = "la-liga" THEN FdBad ELSE FdOk] }

FdLeagueRaises(o) == o.matches = "bad" \/ o.standings = "bad" \/ o.scorers = "bad"

\* the entry of one league: which of its lists are non-empty
FdLeagueEntry(o) ==
  [matches |-> o.matches = "data", standings |-> o.standings = "data",
   scorers |-> o.scorers = "data"]

scrape_all_fd_leagues(inp) ==
  Value([s \in {x \in FdSlugs : ~FdLeagueRaises(inp[x])} |-> FdLeagueEntry(inp[s])])

\* Indian leagues: one page per league.
\*   "data": page parsed, matches found     "none": 200, nothing parsed
\*   "fail": non-200 or exception -> {}
\* exc: an exception before the try of scrape_isl (plain_client(), line 185)
IndianLeagues == {"isl", "ifl", "afc"}
IndianInputs ==
  { [isl |-> "data", ifl |-> "data", afc |-> "data", exc |-> FALSE],
    [isl |-> "fail", ifl |-> "fail", afc |-> "fail", exc |-> FALSE],
    [isl |-> "fail", ifl |-> "data", afc |-> "data", exc |-> FALSE],
    [isl |-> "none", ifl |-> "none", afc |-> "none", exc |-> FALSE],
    [isl |-> "none", ifl |-> "fail", afc |-> "fail", exc |-> FALSE],
    [isl |-> "data", ifl |-> "data", afc |-> "data", exc |-> TRUE] }

\* the dict one league scraper returns: {} is "", else "full" or "hollow"
\* (a dict whose lists are all empty)
scrape_isl(o) == IF o = "data" THEN "full" ELSE ""
scrape_ifl(o) == IF o = "data" THEN "full" ELSE IF o = "none" THEN "hollow" ELSE ""
scrape_afc(o) == IF o = "data" THEN "full" ELSE IF o = "none" THEN "hollow" ELSE ""

IndianLeagueData(inp, l) ==
  CASE l = "isl" -> scrape_isl(inp.isl)
    [] l = "ifl" -> scrape_ifl(inp.ifl)
    [] l = "afc" -> scrape_afc(inp.afc)

scrape_all_indian_leagues(inp) ==
  IF inp.exc
    THEN Raise(<<>>)
    ELSE Value([l \in {x \in IndianLeagues : IndianLeagueData(inp, x) # ""} |->
                  IndianLeagueData(inp, l)])

\* scrape_all_ss_leagues is imported by the scheduler but defined nowhere in
\* the sources; modelled from the adapter contract: a snapshot, an empty
\* result (valid or after a caught failure), or an exception
SsInputs == {"data", "none", "fail", "raise"}
scrape_all_ss_leagues(inp) ==
  IF inp = "raise"
    THEN Raise(<<>>)
    ELSE IF inp = "data"
      THEN Value([l \in {"conference-league"} |-> "full"])
      ELSE Value(<<>>)

Inputs(j) ==
  CASE j = "live" -> LiveInputs
    [] j = "fd" -> FdInputs
    [] j = "indian" -> IndianInputs
    [] j = "ss" -> SsInputs
    [] OTHER -> {}

\* the input on which an adapter returns the full snapshot
Nominal(j) ==
  CASE j = "live" -> <<"none", "matches", "none">>
    [] j = "fd" -> [s \in FdSlugs |-> FdOk]
    [] j = "indian" -> [isl |-> "data", ifl |-> "data", afc |-> "data", exc |-> FALSE]
    [] j = "ss" -> "data"

Adapter(j, inp) ==
  CASE j = "live" -> scrape_live_scores(inp)
    [] j = "fd" -> scrape_all_fd_leagues(inp)
    [] j = "indian" -> scrape_all_indian_leagues(inp)
    [] j = "ss" -> scrape_all_ss_leagues(inp)

\* Python truth value of an adapter result: [] and {} are falsy
Falsy(j, v) == IF j = "live" THEN v = {} ELSE DOMAIN v = {}

\* -------------------------------------------------------------------- cache
\* faulty variant: the entry is updated in place, data first, and the
\* timestamp of the entry that was there is kept
set_cache_keepsTs(s, key, data, t) ==
  [k \in (DOMAIN s) \cup {key} |->
     IF k = key THEN [data |-> data, ts |-> IF key \in DOMAIN s THEN s[key].ts ELSE t]
     ELSE s[k]]

\* _store is a dict: a function whose domain is the set of keys ever written
set_cache(s, key, data, t) ==
  [k \in (DOMAIN s) \cup {key} |-> IF k = key THEN [data |-> data, ts |-> t] ELSE s[k]]

\* the entry of a key as a set: {} when the key is absent
EntryOf(s, key) == IF key \in DOMAIN s THEN {s[key]} ELSE {}

\* The result of a read as a set: {} is None, {v} is the value v (so that an
\* empty list or dict, {{}} here, is not None).
\* faulty variant: `if e["data"]`, an empty snapshot reads as None
get_cache_falsyData(s, key) ==
  LET e == EntryOf(s, key)
  IN IF e # {} /\ \A x \in e : x.data # {} THEN {x.data : x \in e} ELSE {}

\* lines 29-30: e = _store.get(key); e["data"] if e else None
get_cache(s, key) ==
  LET e == EntryOf(s, key)
  IN IF e # {} THEN {x.data : x \in e} ELSE {}

\* lines 36-37; the clock counts whole seconds, which round(., 1) leaves as
\* they are
get_cache_age(s, key, t) ==
  LET e == EntryOf(s, key)
  IN IF e # {} THEN {t - x.ts : x \in e} ELSE {}

\* faulty variant: the summary carries the stored value as well
cache_summary_withData(s, t) == [k \in DOMAIN s |-> [age_s |-> t - s[k].ts, data |-> s[k].data]]

\* line 43
cache_summary(s, t) == [k \in DOMAIN s |-> [age_s |-> t - s[k].ts]]

\* faulty variant: the `with` block is left without releasing the lock
ReleaseOnExit_keepsLock(holder) == holder

\* `with _lock:` (lines 22, 28, 35, 42) releases the lock when the block is
\* left; the value is the holder of the lock after the block
ReleaseOnExit(holder) == NoTask

\* ---------------------------------------------------------------- scheduler
IstHour(t) == ((t + IST_OFFSET_S) \div 3600) % 24

\* faulty variant: 17:00 counted as off-peak
_is_active_lateBoundary(t) ==
  LET hour == IstHour(t)
  IN hour > 17 \/ hour < 6

_is_active(t) ==
  LET hour == IstHour(t)
  IN hour >= 17 \/ hour < 6

_live_interval(t) == IF _is_active(t) THEN ACTIVE_INTERVAL_S ELSE OFFPEAK_INTERVAL_S

VARIABLES
  store,     \* cache._store
  last,      \* _last_fd_scrape, _last_indian, _last_ss_leagues
  running,   \* _running
  lock,      \* _scrape_lock: the task holding it, or NoTask
  now,       \* time.time()
  boot,      \* time.time() at process start
  pc,        \* where each task is suspended
  elapsed,   \* elapsed of the last cycle that ran to its end (line 141)
  interval,  \* interval of the driver loop (line 166)
  dev,       \* off-nominal events so far
  prevSlow,  \* the latest _run_cycle call ran a cycle longer than MAX_CYCLE_S
  cnt,       \* calls of _run_cycle, calls that were skipped, cycles that ran jobs
  ev,        \* what the last step did
  cacheLock, \* cache._lock: the task or thread holding it, or NoTask
  retry,     \* the gated jobs whose latest adapter call raised or returned empty
  th,        \* where each thread that calls the cache directly is
  hist,      \* the set_cache calls of these threads
  inv,       \* adapter calls made so far, per job
  tcache,    \* the local TTL caches (_cache) of the on-demand endpoints
  req        \* the requests to on-demand endpoints that wait for their upstream

vars ==
  <<store, last, running, lock, now, boot, pc, elapsed, interval, dev, prevSlow, cnt, ev,
    cacheLock, retry, th, hist, inv, tcache, req>>

\* the state of the threads that call the cache directly
clientVars == <<th, hist>>

\* the state of the on-demand endpoints
demandVars == <<tcache, req>>

PcNew == [at |-> "new", job |-> NoJob, until |-> 0, t0 |-> 0]
PcReturned == [at |-> "returned", job |-> NoJob, until |-> 0, t0 |-> 0]
PcFetch(j, until, t0) == [at |-> "fetch", job |-> j, until |-> until, t0 |-> t0]
PcSleep(until) == [at |-> "sleep", job |-> NoJob, until |-> until, t0 |-> 0]

EvNone ==
  [op |-> "init", task |-> NoTask, skipped |-> FALSE, entered |-> <<>>,
   invoked |-> NoJob, ret |-> NoJob, kind |-> "-", raised |-> FALSE, res |-> {},
   before |-> {}, end |-> "-", caught |-> FALSE, afterSlow |-> FALSE, slept |-> 0,
   key |-> "-", got |-> {}, seen |-> {}, lastBefore |-> 0]

\* threads that call the cache interface directly, at the same time: two that
\* write and one that reads
Writers == {"w1", "w2"}
Readers == {"r1"}
Clients == Writers \cup Readers
CacheKeys == {"live_scores", "fd_leagues"}
\* the snapshots a writer passes: lists of matches, one of them empty
Payloads(c) == IF c = "w1" THEN {{1}, {}} ELSE {{2}}
ThIdle == [at |-> "idle", op |-> "-", key |-> "-", data |-> {}]
HistNone == [calls |-> 0, written |-> {}, lastSet |-> [k \in CacheKeys |-> {}]]

\* requests to on-demand endpoints that can be in progress at the same time
Requests == {"q1", "q2"}
ReqIdle == [at |-> "idle", ep |-> "-", live |-> FALSE, stage |-> 0]
ReqDone == [at |-> "done", ep |-> "-", live |-> FALSE, stage |-> 0]

\* faulty variant: the times of success start at a clock reading of the day of
\* the start instead of 0
LastSuccessAtImport_stamped == [j \in Gated |-> IstClock(16, 55)]

\* `_last_fd_scrape = 0.0` and the like (lines 47-49)
LastSuccessAtImport == [j \in Gated |-> 0]

Init ==
  /\ store = <<>>
  /\ last = LastSuccessAtImport
  /\ running = FALSE
  /\ lock = NoTask
  /\ now \in StartTimes
  /\ boot = now
  /\ pc = [t \in Tasks |-> PcNew]
  /\ elapsed = 0
  /\ interval = 0
  /\ dev = 0
  /\ prevSlow = FALSE
  /\ cnt = [calls |-> 0, skipped |-> 0, cycles |-> 0]
  /\ ev = EvNone
  /\ cacheLock = NoTask
  /\ retry = {}
  /\ th = [c \in Clients |-> ThIdle]
  /\ hist = HistNone
  /\ inv = [j \in JobSet |-> 0]
  /\ tcache = <<>>
  /\ req = [q \in Requests |-> ReqIdle]

\* faulty variant: a gated job that has succeeded once is never due again
Due_onceOnly(j, tnow, lst) == j = "live" \/ lst[j] = 0

\* faulty variant: the live job is gated as well, by the age of its entry
Due_liveGated(j, tnow, lst) ==
  IF j = "live"
    THEN "live_scores" \notin DOMAIN store
         \/ ~(tnow - store["live_scores"].ts < FD_INTERVAL_S)
    ELSE ~(tnow - lst[j] < Interval(j))

\* faulty variant: every gate compares with the live interval
Due_gateWrongInterval(j, tnow, lst) == j = "live" \/ ~(tnow - lst[j] < ACTIVE_INTERVAL_S)

\* the gate of a job: lines 80, 97, 114; the live job has none
Due(j, tnow, lst) == j = "live" \/ ~(tnow - lst[j] < Interval(j))

\* faulty variant: the live job has no try/except
JobCatches_liveUncaught(j) == j # "live"

\* `except Exception` of a job: lines 72, 90, 107, 124
JobCatches(j) == TRUE

\* faulty variant: the live job guards its write with `if matches:` as well
JobWrites_liveGuarded(j, v) == ~Falsy(j, v)

\* `if data:` of the gated jobs (lines 86, 103, 120); the live job always writes
JobWrites(j, v) == j = "live" \/ ~Falsy(j, v)

\* faulty variant: the time of success is set whether or not the cache was
\* written
JobStamps_unconditional(j, r, writes) == j \in Gated

\* faulty variant: the time of success is set outside `if data:`, whenever the
\* adapter returned
JobStamps_onEmpty(j, r, writes) == j \in Gated /\ ~r.raised

\* `_last_... = time.time()` inside `if data:`, after set_cache (lines 88,
\* 105, 122); the live job keeps no time of success
JobStamps(j, r, writes) == j \in Gated /\ writes

\* faulty variant: the cycle is entered without looking at the lock
Locked_neverSkips == FALSE

\* _scrape_lock.locked(), line 131
Locked == lock # NoTask

\* faulty variant: the flag is not consulted
AlreadyRunning_unguarded == FALSE

\* `if _running`, line 153
AlreadyRunning == running

Min(a, b) == IF a < b THEN a ELSE b

\* Index of the job at which a task that enters the jobs from index i on stops:
\* the job whose own logic raises (f), or the first job that is due and so
\* awaits its adapter; 5 when every job from i on returns at its gate.
FirstStop(i, f, tnow, lst) ==
  LET S == {k \in i..4 : Jobs[k] = f \/ Due(Jobs[k], tnow, lst)}
  IN IF S = {} THEN 5 ELSE CHOOSE k \in S : \A m \in S : k <= m

\* faulty variant: the interval computed in the first iteration is kept and
\* used for every later sleep
Back_cachedInterval(t, tnow, exc) ==
  LET iv == IF interval # 0 THEN interval ELSE _live_interval(tnow)
  IN IF t \in Starters
       THEN [pct |-> PcSleep(tnow + iv), interval |-> iv, caught |-> exc, slept |-> iv]
       ELSE [pct |-> PcReturned, interval |-> interval, caught |-> FALSE, slept |-> 0]

\* faulty variant: run_scheduler has no try/except around the cycle
Back_uncaught(t, tnow, exc) ==
  IF t \in Starters /\ ~exc
    THEN [pct |-> PcSleep(tnow + _live_interval(tnow)), interval |-> _live_interval(tnow),
          caught |-> FALSE, slept |-> _live_interval(tnow)]
    ELSE [pct |-> PcReturned, interval |-> interval, caught |-> FALSE, slept |-> 0]

\* What the caller of _run_cycle does when the call is over.  run_scheduler
\* catches an exception (lines 162, 171), computes the interval and sleeps;
\* the direct caller is finished.
Back(t, tnow, exc) ==
  IF t \in Starters
    THEN [pct |-> PcSleep(tnow + _live_interval(tnow)), interval |-> _live_interval(tnow),
          caught |-> exc, slept |-> _live_interval(tnow)]
    ELSE [pct |-> PcReturned, interval |-> interval, caught |-> FALSE, slept |-> 0]

\* faulty variant: the lock is taken with acquire() and released at the end of
\* the cycle only, so an exception leaves it held
Abort_keepsLock(t, tnow, ent, byFault) ==
  LET b == Back(t, tnow, TRUE)
  IN [pct |-> b.pct, lock |-> t, elapsed |-> elapsed, interval |-> b.interval,
      prevSlow |-> FALSE, skipped |-> FALSE, entered |-> ent, invoked |-> NoJob,
      end |-> "exc", caught |-> b.caught, slept |-> b.slept, usedFault |-> byFault]

\* the cycle is left by an exception: `async with` releases the lock
Abort(t, tnow, ent, byFault) ==
  LET b == Back(t, tnow, TRUE)
  IN [pct |-> b.pct, lock |-> NoTask, elapsed |-> elapsed, interval |-> b.interval,
      prevSlow |-> FALSE, skipped |-> FALSE, entered |-> ent, invoked |-> NoJob,
      end |-> "exc", caught |-> b.caught, slept |-> b.slept, usedFault |-> byFault]

\* Task t, inside `async with _scrape_lock`, enters the jobs from index i on at
\* time tnow, up to its next suspension or the end of the cycle (lines 137-142).
CycleFrom(t, i, tnow, f, d, t0, lst) ==
  LET k == FirstStop(i, f, tnow, lst)
      ent == [n \in 1..(Min(k, 4) - i + 1) |-> Jobs[i + n - 1]]
      el == tnow - t0
      b == Back(t, tnow, FALSE)
  IN IF k <= 4 /\ Jobs[k] = f
       THEN Abort(t, tnow, ent, TRUE)
       ELSE IF k <= 4
         THEN [pct |-> PcFetch(Jobs[k], tnow + d, t0), lock |-> t, elapsed |-> elapsed,
               interval |-> interval, prevSlow |-> prevSlow, skipped |-> FALSE,
               entered |-> ent, invoked |-> Jobs[k], end |-> "-", caught |-> FALSE,
               slept |-> 0, usedFault |-> FALSE]
         ELSE [pct |-> b.pct, lock |-> NoTask, elapsed |-> el, interval |-> b.interval,
               prevSlow |-> (el > MAX_CYCLE_S), skipped |-> FALSE, entered |-> ent,
               invoked |-> NoJob, end |-> "done", caught |-> FALSE, slept |-> b.slept,
               usedFault |-> FALSE]

\* _run_cycle(): skip when the lock is held, else take it and run the jobs
_run_cycle(t, tnow, d) ==
  LET b == Back(t, tnow, FALSE)
  IN IF Locked
       THEN [pct |-> b.pct, lock |-> lock, elapsed |-> elapsed, interval |-> b.interval,
             prevSlow |-> FALSE, skipped |-> TRUE, entered |-> <<>>, invoked |-> NoJob,
             end |-> "-", caught |-> FALSE, slept |-> b.slept, usedFault |-> FALSE]
       ELSE CycleFrom(t, 1, tnow, NoJob, d, tnow, last)

\* the slow duration and the fault are chosen only where they take effect
Effective(out, f, d) ==
  /\ d = FastFetch \/ out.invoked # NoJob
  /\ f = NoJob \/ out.usedFault

Cost(out, d, offNominal) ==
  (IF out.usedFault THEN 1 ELSE 0)
  + (IF out.invoked # NoJob /\ d = SlowFetch THEN 1 ELSE 0)
  + (IF offNominal THEN 1 ELSE 0)

\* the part of a step that one run of the cycle code decides
Commit(t, out) ==
  /\ pc' = [pc EXCEPT ![t] = out.pct]
  /\ lock' = out.lock
  /\ elapsed' = out.elapsed
  /\ interval' = out.interval
  /\ prevSlow' = out.prevSlow
  /\ inv' = IF out.invoked # NoJob THEN [inv EXCEPT ![out.invoked] = @ + 1] ELSE inv

\* one call of _run_cycle is counted
Counted(out) ==
  cnt' = [calls |-> cnt.calls + 1,
          skipped |-> cnt.skipped + (IF out.skipped THEN 1 ELSE 0),
          cycles |-> cnt.cycles + (IF out.entered # <<>> THEN 1 ELSE 0)]

EvCall(op, t, out) ==
  [EvNone EXCEPT !.op = op, !.task = t, !.skipped = out.skipped, !.entered = out.entered,
                 !.invoked = out.invoked, !.end = out.end, !.caught = out.caught,
                 !.afterSlow = prevSlow, !.slept = out.slept]

\* a task that is suspended resumes when its time has come
Pending == {t \in Tasks : pc[t].at \in {"fetch", "sleep"}}
IsNext(t) ==
  /\ t \in Pending
  /\ \A u \in Pending : pc[t].until <= pc[u].until
  /\ pc[t].until <= EndOf(boot)

\* run_scheduler() is called: lines 152-163, up to the first suspension
StartScheduler(t, d) ==
  /\ t \in Starters
  /\ pc[t].at = "new"
  /\ IF AlreadyRunning
       THEN /\ d = FastFetch
            /\ dev < MaxDeviations
            /\ dev' = dev + 1
            /\ pc' = [pc EXCEPT ![t] = PcReturned]
            /\ ev' = [EvNone EXCEPT !.op = "dup", !.task = t]
            /\ UNCHANGED <<store, last, running, lock, now, boot, elapsed, interval, prevSlow, cnt>>
            /\ UNCHANGED <<cacheLock, retry, inv, clientVars, demandVars>>
       ELSE LET out == _run_cycle(t, now, d)
            IN /\ Effective(out, NoJob, d)
               /\ dev + Cost(out, d, FALSE) <= MaxDeviations
               /\ dev' = dev + Cost(out, d, FALSE)
               /\ running' = TRUE
               /\ Commit(t, out)
               /\ Counted(out)
               /\ ev' = EvCall("start", t, out)
               /\ UNCHANGED <<store, last, now, boot, cacheLock, retry, clientVars, demandVars>>

\* the sleep of the driver loop is over: lines 168-172 and 166-168 again
Wake(t, d) ==
  /\ pc[t].at = "sleep"
  /\ IsNext(t)
  /\ LET tnow == pc[t].until
         out == _run_cycle(t, tnow, d)
     IN /\ Effective(out, NoJob, d)
        /\ dev + Cost(out, d, FALSE) <= MaxDeviations
        /\ dev' = dev + Cost(out, d, FALSE)
        /\ now' = tnow
        /\ Commit(t, out)
        /\ Counted(out)
        /\ ev' = EvCall("wake", t, out)
        /\ UNCHANGED <<store, last, running, boot, cacheLock, retry, clientVars, demandVars>>

\* some other coroutine calls _run_cycle() directly
DirectCycle(t, d) ==
  /\ t \in Callers
  /\ pc[t].at = "new"
  /\ LET out == _run_cycle(t, now, d)
     IN /\ Effective(out, NoJob, d)
        /\ dev + Cost(out, d, TRUE) <= MaxDeviations
        /\ dev' = dev + Cost(out, d, TRUE)
        /\ Commit(t, out)
        /\ Counted(out)
        /\ ev' = EvCall("direct", t, out)
        /\ UNCHANGED <<store, last, running, now, boot, cacheLock, retry, clientVars, demandVars>>

\* How the upstream behaved in one adapter call, in the words of the claims:
\*   "clean" no request failed, "partial" some failed and some did not,
\*   "failed" every request failed, "raised" the adapter raised
LiveKind(inp) ==
  IF \E d \in Dates : inp[d] = "bad" THEN "raised"
  ELSE IF \A d \in Dates : inp[d] = "fail" THEN "failed"
  ELSE IF \E d \in Dates : inp[d] = "fail" THEN "partial"
  ELSE "clean"

FdPartFails(o, p) == FdLeagueRaises(o) \/ o[p] = "fail"
FdParts == {"matches", "standings", "scorers"}
FdKind(inp) ==
  IF \A s \in FdSlugs : \A p \in FdParts : FdPartFails(inp[s], p) THEN "failed"
  ELSE IF \E s \in FdSlugs : \E p \in FdParts : FdPartFails(inp[s], p) THEN "partial"
  ELSE "clean"

IndianKind(inp) ==
  IF inp.exc THEN "raised"
  ELSE IF inp.isl = "fail" /\ inp.ifl = "fail" /\ inp.afc = "fail" THEN "failed"
  ELSE IF inp.isl = "fail" \/ inp.ifl = "fail" \/ inp.afc = "fail" THEN "partial"
  ELSE "clean"

SsKind(inp) ==
  IF inp = "raise" THEN "raised" ELSE IF inp = "fail" THEN "failed" ELSE "clean"

Kind(j, inp) ==
  CASE j = "live" -> LiveKind(inp)
    [] j = "fd" -> FdKind(inp)
    [] j = "indian" -> IndianKind(inp)
    [] j = "ss" -> SsKind(inp)

\* The adapter call of the job that task t awaits is over: the rest of the job
\* (lines 70-74, 86-91, 103-108, 120-125), then the jobs after it up to the
\* next suspension or the end of the cycle.  f is the job whose own logic
\* raises before its try, NoJob when none does.
Return(t, inp, f, d) ==
  /\ pc[t].at = "fetch"
  /\ IsNext(t)
  /\ LET j == pc[t].job
         tnow == pc[t].until
         r == Adapter(j, inp)
         escapes == r.raised /\ ~JobCatches(j)
         writes == ~r.raised /\ JobWrites(j, r.val)
         st == IF writes THEN set_cache(store, Key(j), r.val, tnow) ELSE store
         lst == IF JobStamps(j, r, writes) THEN [last EXCEPT ![j] = tnow] ELSE last
         fruitless == r.raised \/ Falsy(j, r.val)
         out == IF escapes
                  THEN Abort(t, tnow, <<>>, FALSE)
                  ELSE CycleFrom(t, Idx(j) + 1, tnow, f, d, pc[t].t0, lst)
         kind == Kind(j, inp)
     IN /\ Effective(out, f, d)
        /\ dev + Cost(out, d, inp # Nominal(j)) <= MaxDeviations
        /\ dev' = dev + Cost(out, d, inp # Nominal(j))
        /\ now' = tnow
        /\ writes => cacheLock = NoTask
        /\ cacheLock' = IF writes THEN ReleaseOnExit(t) ELSE cacheLock
        /\ store' = st
        /\ last' = lst
        /\ retry' = IF j \in Gated
                       THEN (IF fruitless THEN retry \cup {j} ELSE retry \ {j})
                       ELSE retry
        /\ Commit(t, out)
        /\ ev' = [EvCall("return", t, out) EXCEPT
                    !.ret = j, !.kind = kind, !.raised = r.raised,
                    !.res = IF r.raised THEN {} ELSE {r.val},
                    !.before = EntryOf(store, Key(j)), !.afterSlow = FALSE,
                    !.lastBefore = IF j \in Gated THEN last[j] ELSE 0]
        /\ UNCHANGED <<running, boot, cnt, clientVars, demandVars>>

FetchReturn(t, inp, d) == Return(t, inp, NoJob, d)

\* as FetchReturn, and the own logic of a gated job that is entered next
\* raises before its try (lines 80-83, 97-100, 114-117)
FetchReturnFault(t, inp, f, d) == f \in Gated /\ Return(t, inp, f, d)

Next ==
  \/ \E t \in Starters, d \in Durations : StartScheduler(t, d)
  \/ \E t \in Starters, d \in Durations : Wake(t, d)
  \/ \E t \in Callers, d \in Durations : DirectCycle(t, d)
  \/ \E t \in Tasks, d \in Durations : \E inp \in Inputs(pc[t].job) : FetchReturn(t, inp, d)

Spec == Init /\ [][Next]_vars

\* the event loop resumes a task whose await is over
FairSpec == Spec /\ WF_vars(Next)

NextFault ==
  \/ Next
  \/ \E t \in Tasks, d \in Durations, f \in Gated :
       \E inp \in Inputs(pc[t].job) : FetchReturnFault(t, inp, f, d)

SpecFault == Init /\ [][NextFault]_vars

\* the event loop resumes a task whose await is over
FairSpecFault == SpecFault /\ WF_vars(NextFault)

\* the live interval as a function of the clock: the clock reading is drawn
\* from a day of readings and _live_interval() applied to it
InitProbe ==
  /\ store = <<>>
  /\ last = LastSuccessAtImport
  /\ running = FALSE
  /\ lock = NoTask
  /\ now \in ProbeTimes
  /\ boot = now
  /\ pc = [t \in Tasks |-> PcNew]
  /\ elapsed = 0
  /\ interval = 0
  /\ dev = 0
  /\ prevSlow = FALSE
  /\ cnt = [calls |-> 0, skipped |-> 0, cycles |-> 0]
  /\ ev = EvNone
  /\ cacheLock = NoTask
  /\ retry = {}
  /\ th = [c \in Clients |-> ThIdle]
  /\ hist = HistNone
  /\ inv = [j \in JobSet |-> 0]
  /\ tcache = <<>>
  /\ req = [q \in Requests |-> ReqIdle]

ComputeInterval ==
  /\ interval = 0
  /\ interval' = _live_interval(now)
  /\ ev' = [EvNone EXCEPT !.op = "interval", !.slept = _live_interval(now)]
  /\ UNCHANGED <<store, last, running, lock, now, boot, pc, elapsed, dev, prevSlow, cnt>>
  /\ UNCHANGED <<cacheLock, retry, inv, clientVars, demandVars>>

NextProbe == ComputeInterval

SpecInterval == InitProbe /\ [][NextProbe]_vars

\* the state of the scheduler, which the cache calls leave alone
schedVars ==
  <<last, running, lock, boot, pc, elapsed, interval, dev, prevSlow, cnt, retry, inv>>

\* ------------------------------------------------- readers on the event loop
\* The request handlers are coroutines of the same event loop (`async def`,
\* routers/*.py); a cache call of a handler has no await in it and is one
\* step.  The scheduler task is created at application startup (main.py line
\* 32) and runs up to its first suspension before any request is handled.
ReaderKeys ==
  {"live_scores", "fd_leagues", "tsdb_leagues", "indian_leagues", "sofascore_leagues"}
NoThread == "reader"

\* a handler calls get_cache(key)
HandlerGet(key) ==
  /\ running
  /\ cacheLock = NoTask
  /\ cacheLock' = ReleaseOnExit(NoThread)
  /\ ev' = [EvNone EXCEPT !.op = "get", !.task = NoThread, !.key = key,
                          !.got = get_cache(store, key), !.seen = EntryOf(store, key)]
  /\ UNCHANGED <<store, now, schedVars, demandVars, clientVars>>

\* the health handler calls cache_summary()
HandlerSummary ==
  /\ running
  /\ cacheLock = NoTask
  /\ cacheLock' = ReleaseOnExit(NoThread)
  /\ ev' = [EvNone EXCEPT !.op = "summary", !.task = NoThread,
                          !.got = cache_summary(store, now)]
  /\ UNCHANGED <<store, now, schedVars, demandVars, clientVars>>

\* /health: "indian_ready": "tsdb_leagues" in summary (main.py line 148)
indian_ready(summary) == "tsdb_leagues" \in DOMAIN summary

NextRead ==
  \/ Next
  \/ \E key \in ReaderKeys : HandlerGet(key)
  \/ HandlerSummary

SpecRead == Init /\ [][NextRead]_vars

\* ------------------------------------------- the cache under threads
\* The cache interface called from several threads at once.  A call is three
\* steps: the call is made, the lock is taken (`with _lock:`), the block is
\* run and left.
ClientOps(c) ==
  IF c \in Writers
    THEN {[op |-> "set", key |-> k, data |-> p] : k \in CacheKeys, p \in Payloads(c)}
    ELSE {[op |-> o, key |-> k, data |-> {}] : o \in {"get", "age"}, k \in CacheKeys}
           \cup {[op |-> "summary", key |-> "-", data |-> {}]}

Call(c, o) ==
  /\ th[c].at = "idle"
  /\ hist.calls < MaxCalls
  /\ th' = [th EXCEPT ![c] = [at |-> "waiting", op |-> o.op, key |-> o.key, data |-> o.data]]
  /\ hist' = [hist EXCEPT !.calls = @ + 1]
  /\ ev' = [EvNone EXCEPT !.op = "call", !.task = c]
  /\ UNCHANGED <<store, now, cacheLock, schedVars, demandVars>>

\* threading.Lock.acquire: blocks while the lock is held
Acquire(c) ==
  /\ th[c].at = "waiting"
  /\ cacheLock = NoTask
  /\ cacheLock' = c
  /\ th' = [th EXCEPT ![c].at = "locked"]
  /\ ev' = [EvNone EXCEPT !.op = "acquire", !.task = c]
  /\ UNCHANGED <<store, now, hist, schedVars, demandVars>>

\* set_cache, line 23
ClientSet(c) ==
  /\ th[c].at = "locked" /\ th[c].op = "set"
  /\ store' = set_cache(store, th[c].key, th[c].data, now)
  /\ hist' = [hist EXCEPT
                !.written = @ \cup {[key |-> th[c].key, data |-> th[c].data, ts |-> now]},
                !.lastSet[th[c].key] = {th[c].data}]
  /\ cacheLock' = ReleaseOnExit(c)
  /\ th' = [th EXCEPT ![c] = ThIdle]
  /\ ev' = [EvNone EXCEPT !.op = "set", !.task = c, !.key = th[c].key,
                          !.before = EntryOf(store, th[c].key)]
  /\ UNCHANGED <<now, schedVars, demandVars>>

\* get_cache, lines 29-30
ClientGet(c) ==
  /\ th[c].at = "locked" /\ th[c].op = "get"
  /\ cacheLock' = ReleaseOnExit(c)
  /\ th' = [th EXCEPT ![c] = ThIdle]
  /\ ev' = [EvNone EXCEPT !.op = "get", !.task = c, !.key = th[c].key,
                          !.got = get_cache(store, th[c].key),
                          !.seen = EntryOf(store, th[c].key)]
  /\ UNCHANGED <<store, now, hist, schedVars, demandVars>>

\* get_cache_age, lines 36-37
ClientAge(c) ==
  /\ th[c].at = "locked" /\ th[c].op = "age"
  /\ cacheLock' = ReleaseOnExit(c)
  /\ th' = [th EXCEPT ![c] = ThIdle]
  /\ ev' = [EvNone EXCEPT !.op = "age", !.task = c, !.key = th[c].key,
                          !.got = get_cache_age(store, th[c].key, now),
                          !.seen = EntryOf(store, th[c].key)]
  /\ UNCHANGED <<store, now, hist, schedVars, demandVars>>

\* cache_summary, line 43
ClientSummary(c) ==
  /\ th[c].at = "locked" /\ th[c].op = "summary"
  /\ cacheLock' = ReleaseOnExit(c)
  /\ th' = [th EXCEPT ![c] = ThIdle]
  /\ ev' = [EvNone EXCEPT !.op = "summary", !.task = c,
                          !.got = cache_summary(store, now)]
  /\ UNCHANGED <<store, now, hist, schedVars, demandVars>>

\* time.time() advances
Tick ==
  /\ now < boot + MaxTicks
  /\ now' = now + 1
  /\ ev' = [EvNone EXCEPT !.op = "tick"]
  /\ UNCHANGED <<store, cacheLock, clientVars, schedVars, demandVars>>

NextCache ==
  \/ \E c \in Clients : \E o \in ClientOps(c) : Call(c, o)
  \/ \E c \in Clients : Acquire(c)
  \/ \E c \in Writers : ClientSet(c)
  \/ \E c \in Readers : ClientGet(c)
  \/ \E c \in Readers : ClientAge(c)
  \/ \E c \in Readers : ClientSummary(c)
  \/ Tick

InitCache == Init /\ now = IstClock(10, 0)

SpecCache == InitCache /\ [][NextCache]_vars

\* ------------------------------------------------------ on-demand endpoints
\* The handlers of routers/matches.py, players.py and bracket.py keep their
\* results in a dict of the module (_cache) with a time to live.  One key per
\* endpoint is followed (one match, one team, one player, one cup); the team
\* of "next:indian" is an Indian team, looked up by name in indian_leagues.
Endpoints ==
  {"h2h", "events", "lineups", "squad", "form", "next", "next:indian", "player", "bracket"}

\* the TTL each handler passes to _get, or that _get has built in
Ttl(ep, isLive) ==
  CASE ep = "h2h" -> 3600
    [] ep = "events" -> IF isLive THEN 120 ELSE 3600
    [] ep = "lineups" -> 600
    [] ep = "squad" -> 86400
    [] ep = "form" -> 600
    [] ep \in {"next", "next:indian"} -> 1800
    [] ep = "player" -> 1800
    [] ep = "bracket" -> 1800

\* `if not data: raise HTTPException(...)` before _set
Guarded(ep) == ep \in {"events", "lineups", "squad", "player", "bracket"}

\* How an upstream call of a handler ends: "data" rows came back, "none" the
\* upstream answered without rows, "fail" the request failed and the fetcher
\* returned its empty result.  The value handed to the handler is "full",
\* "hollow" (a dict whose lists are empty, which is truthy) or "" ([] or {}).
Outcomes == {"data", "none", "fail"}
Fetched(ep, o) ==
  IF o = "data" THEN "full"
  ELSE IF o = "none" /\ ep \in {"events", "lineups", "squad"} THEN "hollow"
  ELSE ""

\* the match of the events request is a match of today: live_scores lists it
\* while it is in play
TheMatchDate == 2
is_live(s) == \E v \in get_cache(s, "live_scores") : TheMatchDate \in v

\* the Indian branch of get_team_next: the upcoming matches of the team in the
\* indian_leagues snapshot
IndianUpcoming(s) ==
  IF \E v \in get_cache(s, "indian_leagues") : \E l \in DOMAIN v : v[l] = "full"
    THEN "full" ELSE ""

\* _get of a router: the data of an entry younger than ttl, else None
_get(c, key, ttl, t) ==
  IF key \in DOMAIN c /\ t - c[key].ts < ttl THEN {c[key].data} ELSE {}

\* _set of a router.  Beside data and ts the entry records, for the claims,
\* whether the match was live when the handler looked (live) and how the
\* upstream call ended (src).
_set(c, key, data, t, isLive, o) ==
  [k \in (DOMAIN c) \cup {key} |->
     IF k = key THEN [data |-> data, ts |-> t, live |-> isLive, src |-> o] ELSE c[k]]

\* clock readings, from the start, at which something happens
DemandTimes == {60, 120, 480, 3000, DemandHorizon}

\* A request arrives: the handler up to its first await, or to its end when
\* the local cache answers (matches.py lines 56-61, 85-96, 113-118, 135-140,
\* 162-175, 195-221; players.py 64-69; bracket.py 92-96).
Request(q, ep) ==
  /\ req[q].at = "idle"
  /\ q = "q2" => req["q1"].at # "idle"
  /\ LET live == ep = "events" /\ is_live(store)
         cached == _get(tcache, ep, Ttl(ep, live), now)
     IN IF cached # {}
          THEN /\ req' = [req EXCEPT ![q] = ReqDone]
               /\ ev' = [EvNone EXCEPT !.op = "request", !.key = ep, !.got = cached,
                                       !.seen = {tcache[ep]}, !.end = "hit"]
               /\ UNCHANGED tcache
          ELSE IF ep = "next:indian"
            THEN /\ tcache' = _set(tcache, ep, IndianUpcoming(store), now, live, "local")
                 /\ req' = [req EXCEPT ![q] = ReqDone]
                 /\ ev' = [EvNone EXCEPT !.op = "request", !.key = ep,
                                         !.got = {IndianUpcoming(store)}, !.end = "local"]
            ELSE /\ req' = [req EXCEPT ![q] = [at |-> "fetch", ep |-> ep, live |-> live,
                                               stage |-> 1]]
                 /\ ev' = [EvNone EXCEPT !.op = "request", !.key = ep, !.end = "miss"]
                 /\ UNCHANGED tcache
  /\ UNCHANGED <<store, now, cacheLock, schedVars, clientVars>>

\* The upstream call of a handler is over: the rest of the handler.  The
\* player handler calls a second upstream when the first came back empty
\* (players.py lines 72-73); that fetcher, fetch_player_fd, is imported but
\* defined nowhere in the sources and is taken to return a profile or {} as
\* the handler expects.
Upstream(q, o) ==
  /\ req[q].at = "fetch"
  /\ LET ep == req[q].ep
         data == Fetched(ep, o)
     IN IF ep = "player" /\ req[q].stage = 1 /\ data = ""
          THEN /\ req' = [req EXCEPT ![q].stage = 2]
               /\ ev' = [EvNone EXCEPT !.op = "upstream", !.key = ep, !.end = "fallback"]
               /\ UNCHANGED tcache
          ELSE IF Guarded(ep) /\ data = ""
            THEN /\ req' = [req EXCEPT ![q] = ReqDone]
                 /\ ev' = [EvNone EXCEPT !.op = "upstream", !.key = ep, !.end = "error"]
                 /\ UNCHANGED tcache
            ELSE /\ tcache' = _set(tcache, ep, data, now, req[q].live, o)
                 /\ req' = [req EXCEPT ![q] = ReqDone]
                 /\ ev' = [EvNone EXCEPT !.op = "upstream", !.key = ep, !.got = {data},
                                         !.end = "stored"]
  /\ UNCHANGED <<store, now, cacheLock, schedVars, clientVars>>

\* the clock moves on to a later reading
Elapse(d) ==
  /\ boot + d > now
  /\ now' = boot + d
  /\ ev' = [EvNone EXCEPT !.op = "elapse"]
  /\ UNCHANGED <<store, cacheLock, schedVars, clientVars, demandVars>>

\* _job_live writes the matches now in play: the match of the events request
\* is among them or not
LiveRefresh(v) ==
  /\ get_cache(store, "live_scores") # {v}
  /\ store' = set_cache(store, "live_scores", v, now)
  /\ ev' = [EvNone EXCEPT !.op = "live"]
  /\ UNCHANGED <<now, cacheLock, schedVars, clientVars, demandVars>>

NextDemand ==
  \/ \E q \in Requests, ep \in Endpoints : Request(q, ep)
  \/ \E q \in Requests, o \in Outcomes : Upstream(q, o)
  \/ \E d \in DemandTimes : Elapse(d)
  \/ \E v \in {{TheMatchDate}, {}} : LiveRefresh(v)

InitDemand == Init /\ now = IstClock(10, 0)

SpecDemand == InitDemand /\ [][NextDemand]_vars

TypeOK ==
  /\ running \in BOOLEAN
  /\ lock \in Tasks \cup {NoTask}
  /\ DOMAIN store \subseteq {Key(j) : j \in JobSet}
  /\ \A t \in Tasks : pc[t].at \in {"new", "returned", "fetch", "sleep"}
  /\ dev \in 0..MaxDeviations
  /\ cacheLock \in Tasks \cup Clients \cup {NoTask, NoThread}
  /\ retry \subseteq Gated
  /\ \A c \in Clients : th[c].at \in {"idle", "waiting", "locked"}
  /\ hist.calls \in 0..MaxCalls

\* ------------------------------------------------------------------- claims
Range(q) == {q[n] : n \in DOMAIN q}
Returned == ev.op = "return"
\* the adapter returned an empty list or dict
ReturnedEmpty == Returned /\ ~ev.raised /\ \A v \in ev.res : Falsy(ev.ret, v)
DriverLoops == {t \in Starters : pc[t].at \in {"fetch", "sleep"}}
InCycle == {t \in Tasks : pc[t].at = "fetch"}

\* C1: a job whose upstream fetch failed (every request failed, or the adapter
\* raised) leaves the entry of its cache key, value and timestamp, as it was
\* before the run.
C1_NeverOverwriteOnFailure ==
  (Returned /\ ev.kind \in {"failed", "raised"})
    => EntryOf(store, Key(ev.ret)) = ev.before

\* C2: at most one task is inside a cycle and it holds the scrape lock; a call
\* of _run_cycle made while the lock is held enters no job, invokes no adapter,
\* leaves the lock with its holder and returns to its caller at once; the
\* cycles that ran jobs are the calls that were not skipped.
C2_AtMostOneCycle ==
  /\ Cardinality(InCycle) <= 1
  /\ \A t \in InCycle : lock = t
  /\ lock # NoTask => lock \in InCycle
  /\ ev.skipped =>
       /\ ev.entered = <<>>
       /\ ev.invoked = NoJob
       /\ lock \in Tasks \ {ev.task}
       /\ pc[ev.task].at = (IF ev.task \in Starters THEN "sleep" ELSE "returned")
  /\ cnt.cycles = cnt.calls - cnt.skipped

C2_Witness == ev.skipped /\ lock \in Tasks \ {ev.task} /\ cnt.skipped = 1 /\ cnt.cycles >= 1

\* C3: a job whose fetch failed in part (some requests failed, others did not)
\* leaves the entry of its cache key as it was before the run.
C3_OnlyCompleteSnapshots ==
  (Returned /\ ev.kind = "partial")
    => EntryOf(store, Key(ev.ret)) = ev.before

C5_IntervalGating ==
  \A j \in Gated :
    j \in Range(ev.entered) =>
      IF Key(j) \in DOMAIN store
        THEN (ev.invoked = j) <=> (now >= store[Key(j)].ts + Interval(j))
        ELSE ev.invoked = j

C5_Witness ==
  /\ ev.invoked = "indian"
  /\ "indian_leagues" \in DOMAIN store
  /\ now >= store["indian_leagues"].ts + 3600
  /\ "fd" \in Range(ev.entered)
  /\ now < store["fd_leagues"].ts + 1800

\* C6: when the adapter of a job raises, the job returns normally: the cycle
\* goes on with the jobs after it, in order, up to the next adapter call or the
\* end of the cycle, and nothing reaches the caller of _run_cycle.
C6_AdapterRaiseContained ==
  (Returned /\ ev.raised) =>
    /\ ev.end # "exc"
    /\ ~ev.caught
    /\ IF ev.invoked # NoJob
         THEN /\ ev.entered = SubSeq(Jobs, Idx(ev.ret) + 1, Idx(ev.invoked))
              /\ lock = ev.task
         ELSE /\ ev.entered = SubSeq(Jobs, Idx(ev.ret) + 1, 4)
              /\ ev.end = "done"

C6_Witness == Returned /\ ev.raised /\ ev.ret = "live" /\ ev.invoked = "fd"

\* C7: _running never goes back to False; a run_scheduler call that finds it
\* True returns without a cycle and without a sleep; at most one driver loop
\* exists.
C7_SchedulerSingleton ==
  /\ [](/\ Cardinality(DriverLoops) <= 1
        /\ DriverLoops # {} => running
        /\ ev.op = "dup" =>
             /\ pc[ev.task].at = "returned"
             /\ ev.entered = <<>> /\ ev.invoked = NoJob /\ ev.slept = 0
             /\ ~ev.skipped
             /\ Cardinality(DriverLoops) = 1)
  /\ [][running => running']_vars

C7_Witness == ev.op = "dup" /\ running /\ Cardinality(DriverLoops) = 1

\* C8: a driver loop, once started, is never left: when a cycle of the driver
\* ends by an exception, the driver has caught it and sleeps for the live
\* interval, and after that it attempts its next cycle (as long as the wake-up
\* lies within the explored time).
DriverCaught == ev.caught /\ ev.task \in Starters
PastHorizon == \E t \in Starters : pc[t].at = "sleep" /\ pc[t].until > EndOf(boot)
C8_DriverSurvives ==
  /\ [](/\ running => Cardinality(DriverLoops) = 1
        /\ (ev.end = "exc" /\ ev.task \in Starters) =>
             /\ ev.caught
             /\ pc[ev.task] = PcSleep(now + _live_interval(now))
             /\ lock # ev.task)
  /\ (DriverCaught ~> ((ev.op = "wake" /\ cnt.calls > 1) \/ PastHorizon))

C8_Witness == DriverCaught /\ pc[ev.task].at = "sleep" /\ ev.end = "exc"

\* C9: the _run_cycle call that follows a cycle longer than MAX_CYCLE_S is
\* skipped.
C9_SlowCycleSkipsNext ==
  (ev.op \in {"start", "wake", "direct"} /\ ev.afterSlow) => ev.skipped

\* C10: the live interval is 180 at the IST hours 17..23 and 0..5, and 420 at
\* the hours 6..16; 17 and 18 give 180, 6 and 10 give 420.
C10_LiveIntervalByHour ==
  ev.op = "interval" =>
    LET h == IstHour(now)
    IN /\ h \in 0..23
       /\ (h >= 17 \/ h < 6) => interval = 180
       /\ (6 <= h /\ h < 17) => interval = 420
       /\ h \in {17, 18} => interval = 180
       /\ h \in {6, 10} => interval = 420

C10_Witness == ev.op = "interval" /\ IstHour(now) = 17 /\ interval = 180

\* the threads inside the `with _lock:` block
InBlock == {c \in Clients : th[c].at = "locked"}
WriteOf(key, e) == [key |-> key, data |-> e.data, ts |-> e.ts]

\* C11: with set_cache and get_cache calls of several threads in flight at
\* once, every entry in the store, and every entry a reader gets hold of, is
\* the data and the timestamp of one single set_cache call; get_cache returns
\* the data of one of the set_cache calls for its key, or None when no
\* set_cache call for the key has been carried out; at most one thread is
\* inside the block and it holds the lock.
C11_AtomicReplace ==
  /\ \A k \in DOMAIN store : WriteOf(k, store[k]) \in hist.written
  /\ ev.op \in {"get", "age"} => \A e \in ev.seen : WriteOf(ev.key, e) \in hist.written
  /\ ev.op = "get" =>
       IF \E w \in hist.written : w.key = ev.key
         THEN \E w \in hist.written : w.key = ev.key /\ ev.got = {w.data}
         ELSE ev.got = {}
  /\ Cardinality(InBlock) <= 1
  /\ \A c \in InBlock : cacheLock = c

\* a get_cache that returns B while set_cache(K, A) of another thread is in flight
C11_Witness ==
  /\ ev.op = "get" /\ ev.got = {{2}}
  /\ th["w1"].at = "waiting" /\ th["w1"].key = ev.key /\ th["w1"].data = {1}

\* C12: get_cache(key) returns the data of the latest set_cache(key, .) that
\* was carried out, and None exactly when there was none; get_cache_age(key) is
\* None in exactly the same states.  An empty snapshot is returned as it is,
\* not as None.
C12_GetReturnsLastSet ==
  /\ ev.op = "get" => ev.got = hist.lastSet[ev.key]
  /\ ev.op = "age" => ((ev.got = {}) <=> (hist.lastSet[ev.key] = {}))
  /\ \A k \in CacheKeys : (get_cache(store, k) = {}) <=> (get_cache_age(store, k, now) = {})

C12_Witness ==
  /\ ev.op = "get" /\ ev.got = {{}}
  /\ \E w \in hist.written : w.key = ev.key /\ w.data = {2}

\* the never-deleted half of C13: no step takes a key out of the store
KeysStay == [][DOMAIN store \subseteq DOMAIN store']_vars

\* C13: a run of a job does not remove the job's key, and a key that was
\* absent before a run is absent after it unless the run succeeded (its fetch
\* neither failed altogether nor raised).
C13_KeyLifecycle ==
  Returned =>
    /\ ev.before # {} => Key(ev.ret) \in DOMAIN store
    /\ (ev.before = {} /\ ev.kind \in {"failed", "raised"}) => Key(ev.ret) \notin DOMAIN store

\* C14: cache_summary() has one entry per key of the store and an entry holds
\* the age of the key and nothing else; get_cache, get_cache_age and
\* cache_summary leave the store as it is.
C14_SummaryMetadataOnly ==
  /\ [](ev.op = "summary" =>
          /\ DOMAIN ev.got = DOMAIN store
          /\ \A k \in DOMAIN store :
               /\ DOMAIN ev.got[k] = {"age_s"}
               /\ ev.got[k].age_s = now - store[k].ts)
  /\ [][ev'.op \in {"get", "age", "summary"} => (store' = store /\ hist' = hist)]_vars

C14_Witness == ev.op = "summary" /\ DOMAIN ev.got = CacheKeys /\ ev.got["fd_leagues"].age_s = 1

HandlerGot == ev.op = "get" /\ ev.task = NoThread

\* C15: the cache lock is free in every state in which a task is suspended, so
\* also while a cycle waits for an adapter; a get_cache of a handler can be
\* carried out in every such state, returns the data of the entry in the store
\* (None when the key is absent) and leaves the store, the clock, the scrape
\* lock, the tasks of the scheduler and its counters as they are.
C15_ReadersNeverBlock ==
  /\ [](/\ cacheLock = NoTask
        /\ running => \A key \in ReaderKeys : ENABLED HandlerGet(key)
        /\ HandlerGot => ev.got = {e.data : e \in EntryOf(store, ev.key)})
  /\ [][(ev'.op = "get" /\ ev'.task = NoThread) => UNCHANGED <<store, now, schedVars>>]_vars

\* live_scores read while the cycle that wrote it waits for the next adapter
C15_Witness ==
  /\ HandlerGot /\ ev.key = "live_scores" /\ ev.got # {}
  /\ \E t \in InCycle : pc[t].job = "fd" /\ lock = t

\* C16: a gated job whose time of success is not 0 has its key in the store,
\* written not later than that time; a run that changes the time of success
\* has written the result of its adapter to the key in the same run.
C16_WriteThenStamp ==
  /\ \A j \in Gated :
       last[j] # 0 => (Key(j) \in DOMAIN store /\ store[Key(j)].ts <= last[j])
  /\ (Returned /\ ev.ret \in Gated /\ last[ev.ret] # ev.lastBefore) =>
       /\ EntryOf(store, Key(ev.ret)) = {[data |-> v, ts |-> now] : v \in ev.res}
       /\ ev.res # {}
       /\ last[ev.ret] = now

C16_Witness ==
  /\ Returned /\ ev.ret = "fd" /\ last["fd"] = now /\ ev.lastBefore # 0
  /\ store["fd_leagues"].ts = now

\* C17: a step that ends a cycle, by its last job or by an exception, leaves
\* the scrape lock free; the lock is held only by a task that waits for an
\* adapter inside a cycle, and a call is skipped only when another task is
\* inside a cycle.
C17_LockReleased ==
  /\ ev.end \in {"done", "exc"} => lock = NoTask
  /\ lock # NoTask => pc[lock].at = "fetch"
  /\ (ev.op \in {"start", "wake", "direct"} /\ ev.skipped) => lock \in InCycle \ {ev.task}

\* the second cycle of the driver runs although the first was left by an
\* exception (no cycle has run to its end: elapsed is still 0)
C17_Witness ==
  /\ ev.op = "wake" /\ ~ev.skipped /\ ev.invoked = "live" /\ lock = ev.task
  /\ cnt.cycles = 2 /\ elapsed = 0

\* C18: when the own logic of a job raises inside a cycle, the cycle goes on:
\* the task stays inside the cycle, unless the job that raised was the last.
C18_CycleContinuesAfterJobThrow ==
  ev.end = "exc" =>
    \/ lock = ev.task /\ pc[ev.task].at = "fetch"
    \/ ev.entered # <<>> /\ ev.entered[Len(ev.entered)] = "ss"

\* C19: a run of a gated job whose adapter raised or returned an empty result
\* leaves the time of success as it was; such a job invokes its adapter the
\* next time it is entered; and the job whose adapter is invoked lies after the
\* job that has just returned (no job is run again inside a cycle).
C19_RetryNextCycle ==
  /\ (Returned /\ ev.ret \in Gated /\ (ev.raised \/ ReturnedEmpty)) =>
       (last[ev.ret] = ev.lastBefore /\ ev.ret \in retry)
  /\ \A j \in Gated : (j \in Range(ev.entered) /\ j \in retry) => ev.invoked = j
  /\ (Returned /\ ev.invoked # NoJob) => Idx(ev.invoked) > Idx(ev.ret)

\* the indian adapter, fruitless in the first cycle, is invoked in the second,
\* long before an hour has passed
C19_Witness ==
  /\ ev.invoked = "indian" /\ "indian" \in retry
  /\ cnt.cycles = 2 /\ now - boot < INDIAN_INTERVAL_S

FixedOrder == <<"live", "fd", "indian", "ss">>
Pos(j) == CHOOSE n \in 1..4 : FixedOrder[n] = j

\* C20: a cycle enters its jobs in the order live, fd, indian, ss: a call that
\* is not skipped starts with live, the jobs entered after a job has returned
\* are the ones that follow it, the adapter invoked is that of the last job
\* entered, a cycle ends after ss, and at most one job waits for its adapter.
C20_FixedOrderSequential ==
  /\ Cardinality(InCycle) <= 1
  /\ (ev.op \in {"start", "wake", "direct"} /\ ~ev.skipped) =>
       /\ Len(ev.entered) >= 1
       /\ ev.entered = SubSeq(FixedOrder, 1, Len(ev.entered))
  /\ (Returned /\ ev.end # "exc") =>
       ev.entered = SubSeq(FixedOrder, Pos(ev.ret) + 1, Pos(ev.ret) + Len(ev.entered))
  /\ ev.invoked # NoJob =>
       /\ ev.invoked = ev.entered[Len(ev.entered)]
       /\ pc[ev.task].job = ev.invoked
  /\ ev.end = "done" =>
       IF ev.entered = <<>> THEN ev.ret = "ss" ELSE ev.entered[Len(ev.entered)] = "ss"

C20_Witness ==
  /\ Returned /\ ev.ret = "indian" /\ ev.invoked = "ss" /\ ev.entered = <<"ss">>
  /\ DOMAIN store = {"live_scores", "fd_leagues", "indian_leagues"}

\* ---------------------------------------------------------------------------
\* the key that each job is said to own
OwnKey(j) ==
  CASE j = "live" -> "live_scores"
    [] j = "fd" -> "fd_leagues"
    [] j = "indian" -> "indian_leagues"
    [] j = "ss" -> "sofascore_leagues"
    [] OTHER -> "-"

KeysOf(s1, s2) == DOMAIN s1 \cup DOMAIN s2
SameAt(s1, s2, k) == k \in DOMAIN s1 /\ k \in DOMAIN s2 /\ s1[k] = s2[k]

\* C21: the run of one job (the step in which its adapter call is over)
\* changes at most the job's own key, one of live_scores, fd_leagues,
\* indian_leagues, sofascore_leagues, and the job's own time of success; every
\* other key and every other job's time of success stay as they were, whether
\* the run succeeds or fails.  No other step of the scheduler changes the
\* cache or a time of success.
C21_JobFrame ==
  [][IF ev'.op = "return"
       THEN /\ \A k \in KeysOf(store, store') \ {OwnKey(ev'.ret)} : SameAt(store, store', k)
            /\ \A g \in Gated \ {ev'.ret} : last'[g] = last[g]
       ELSE store' = store /\ last' = last]_vars

\* a failed run of the Indian job while the keys of the two jobs before it
\* are present, and a run of the football-data job that writes its key
C21_Witness ==
  \/ /\ Returned /\ ev.ret = "indian" /\ ev.kind = "failed"
     /\ {"live_scores", "fd_leagues"} \subseteq DOMAIN store
  \/ /\ Returned /\ ev.ret = "fd" /\ ev.before # EntryOf(store, "fd_leagues")
     /\ "live_scores" \in DOMAIN store

\* _run_cycle is called by nobody but run_scheduler
NoDirectCall == \A c \in Callers : pc[c].at = "new"

\* C22: the effective call of run_scheduler enters a cycle at once, with no
\* sleep before it; in that first cycle every job is due, and when the driver
\* sleeps for the first time each of the four adapters has been invoked
\* exactly once.
C22_StartupCycle ==
  NoDirectCall =>
    /\ ev.op = "start" =>
         ~ev.skipped /\ ev.invoked = "live" /\ ev.slept = 0 /\ cnt.cycles = 1
    /\ running => cnt.cycles >= 1
    /\ cnt.cycles = 1 =>
         /\ \A j \in JobSet : inv[j] <= 1
         /\ \A t \in Starters :
              /\ pc[t].at = "fetch" =>
                   \A j \in JobSet : inv[j] = (IF Idx(j) <= Idx(pc[t].job) THEN 1 ELSE 0)
              /\ pc[t].at = "sleep" => \A j \in JobSet : inv[j] = 1

\* the driver has just gone to sleep for the first time
C22_Witness ==
  /\ NoDirectCall /\ cnt.cycles = 1
  /\ Returned /\ ev.ret = "ss" /\ ev.slept > 0
  /\ \A j \in JobSet : inv[j] = 1

\* the first cycle of the driver has run to its end
StartupCycleOver == cnt.cycles >= 2 \/ \E t \in Starters : pc[t].at = "sleep"

\* C23: the startup cycle is over before a reader request is served: a
\* handler that reads one of the keys of the jobs does so after the first
\* cycle has completed.
C23_WarmBeforeFirstRead ==
  (HandlerGot /\ ev.key \in {OwnKey(j) : j \in JobSet}) => StartupCycleOver

\* the interval of the bucket that the IST hour of clock reading t falls in
BucketInterval(t) == IF IstHour(t) >= 17 \/ IstHour(t) < 6 THEN 180 ELSE 420

\* C24: every sleep of the driver loop lasts the interval of the bucket of the
\* IST hour at which that iteration computes it, whatever the interval of the
\* iteration before was: after the hour has crossed 6 or 17 the next sleep
\* uses the other bucket's interval.
C24_IntervalRecomputed ==
  ev.slept > 0 =>
    /\ ev.slept = BucketInterval(now)
    /\ pc[ev.task].at = "sleep" /\ pc[ev.task].until = now + ev.slept

\* a start at 16:55 IST sleeps 420 s first; the sleep computed after 17:00 is
\* 180 s.  A start at 05:50 IST sleeps 180 s first and 420 s after 06:00.
C24_Witness ==
  /\ cnt.cycles >= 2 /\ ev.slept > 0
  /\ \/ boot = IstClock(16, 55) /\ ev.slept = 180
     \/ boot = IstClock(5, 50) /\ ev.slept = 420

\* C25: the live job has no gate: every cycle that is entered invokes the
\* live-scores adapter, first of all jobs and exactly once, however short the
\* time since live_scores was last written.
C25_LiveNeverGated ==
  /\ inv["live"] = cnt.cycles
  /\ (ev.op \in {"start", "wake", "direct"} /\ ~ev.skipped) =>
       ev.invoked = "live" /\ ev.entered = <<"live">>

\* a cycle of the active hours: live_scores was written less than 200 s ago
\* and the adapter is invoked again
C25_Witness ==
  /\ ev.op = "wake" /\ ev.invoked = "live" /\ cnt.cycles >= 2
  /\ "live_scores" \in DOMAIN store /\ now - store["live_scores"].ts < 200

\* a request was answered from the local cache of its router
ServedFromCache == ev.op = "request" /\ ev.end = "hit"

\* C26: an events entry that was fetched while the match was live is served
\* from the local cache at most 120 seconds after it was fetched.
C26_LiveEntryShortLived ==
  (ServedFromCache /\ ev.key = "events") =>
    \A e \in ev.seen : e.live => now - e.ts <= 120

\* C28: no request is answered from the local cache with the empty result of
\* an upstream call that failed: after such a call the next request for the
\* key calls the upstream again.
C28_FailureNotCached ==
  ServedFromCache => \A e \in ev.seen : e.src # "fail"

\* C27: a key that a reader consults is written by a refresh job, so it is
\* present once that job has succeeded: after the Indian-leagues job has
\* succeeded, a handler that reads the key of the Indian/TheSportsDB data
\* (tsdb_leagues in health, scores and search) finds it, and /health reports
\* indian_ready.
C27_ReaderKeysWritten ==
  last["indian"] # 0 =>
    /\ (HandlerGot /\ ev.key = "tsdb_leagues") => ev.got # {}
    /\ (ev.op = "summary" /\ ev.task = NoThread) => indian_ready(ev.got)

\* the time between two writes of a job's key when nothing goes wrong: the
\* job's interval (the longer live interval for the live job)
Period(j) ==
  CASE j = "live" -> 420
    [] j = "fd" -> 1800
    [] j = "indian" -> 3600
    [] j = "ss" -> 1800

\* The longest time from the start of one cycle to the start of the next: the
\* four adapter calls, one of them slow per deviation, and the longer sleep.
CycleSpan == 4 * FastFetch + 420

\* Each deviation (a failed or empty adapter call, a slow call, a cycle that
\* was skipped) puts a write off by at most one cycle and one slow call.
Lag == (dev + 1) * CycleSpan + dev * SlowFetch

AllPresent == \A j \in JobSet : OwnKey(j) \in DOMAIN store
Fresh ==
  \A j \in JobSet :
    OwnKey(j) \in DOMAIN store => now - store[OwnKey(j)].ts <= Period(j) + Lag
TimeRunsOn == now + CycleSpan + SlowFetch >= EndOf(boot)

\* C29: when the driver is scheduled fairly and, after at most MaxDeviations
\* adapter calls that fail, every adapter call returns a snapshot, the clock
\* runs on to the horizon and each of the four keys is present by then; and
\* no key is starved on the way: at every moment the entry of a key is no
\* older than the job's period plus the delay of the deviations, so that it
\* is rewritten again and again for as long as the clock runs.
C29_NoStarvation == []Fresh /\ <>(AllPresent /\ TimeRunsOn)

\* late in the run the keys of the live job and of the jobs with the
\* 30-minute gate have been rewritten, the Indian key more than an hour after
\* the start
C29_Witness ==
  /\ AllPresent
  /\ boot = IstClock(10, 0)
  /\ store["live_scores"].ts > boot + 3600
  /\ store["fd_leagues"].ts > boot + 1800
  /\ store["sofascore_leagues"].ts > boot + 1800
  /\ store["indian_leagues"].ts > boot + 3600

====
